---- MODULE Spec2Model ----
(***************************************************************************)
(* Message exchange buffer protocol of src/src/wasm_mp1.rs (3nweb message  *)
(* passing api, version 1): the guest's exchange buffer BUFFER_INFO, the   *)
(* registered MSG_PROCESSOR, the exported _3nweb_mp1_get_buffer and        *)
(* _3nweb_mp1_accept_msg, and the guest-side send_msg_out and              *)
(* set_msg_processor.  The heap, the host's writes and reads and the       *)
(* processor's record of what it received are modelled around them.        *)
(***************************************************************************)
EXTENDS Integers, Sequences, FiniteSets

VARIABLES BUFFER_INFO, MSG_PROCESSOR, heap, inbound, log, last, aborted, ncalls,
          hist

vars == <<BUFFER_INFO, MSG_PROCESSOR, heap, inbound, log, last, aborted, ncalls,
          hist>>

(* ---- bounds of the model ---- *)
MaxSize == 2        \* largest buf_size / message length tried
NumBytes == 2       \* distinct byte values a message may hold
NumAddr == 2        \* heap addresses the allocator may hand out
NumProcs == 2       \* distinct processors that may be registered
MaxCalls == 5       \* calls into the guest code in one run

(* ---- values ---- *)
NULL == 0           \* `0 as *mut u8`
None == 0           \* Option::None of MSG_PROCESSOR
NoLayout == -1      \* Option::None of BUFFER_INFO.layout
Unspecified == 0    \* a byte nothing is known about: never written, or outside the region
NoPattern == <<0>>  \* the host copied no message before calling accept
Owned == -1         \* a message whose bytes are in memory of its own

Addr == 1..NumAddr
Byte == 1..NumBytes
Sizes == 0..MaxSize
Procs == 1..NumProcs
(* the messages tried: for each length, one per starting byte, neighbouring
   bytes differing *)
Pattern(n, b) == [i \in 1..n |-> ((b + i - 2) % NumBytes) + 1]
Msgs == {Pattern(n, b) : n \in Sizes, b \in Byte}

FreeRegion == [live |-> FALSE, size |-> 0, data |-> <<>>]

(* capacity of the live region at address p (0 when there is none) *)
CapacityAt(hp, p) == IF p \in Addr /\ hp[p].live THEN hp[p].size ELSE 0

LiveAt(hp, p) == p \in Addr /\ hp[p].live

(* ---- std::alloc ---- *)

(* alloc(layout): a block not in use, or null when the allocator fails.  A
   request of zero bytes (Layout::array::<u8>(0)) is served like any other. *)
alloc(hp, canFail) ==
    {a \in Addr : ~hp[a].live} \cup (IF canFail THEN {NULL} ELSE {})

(* an allocation one byte smaller than the layout asks for *)
allocated_short(hp, p, size) ==
    IF p = NULL THEN hp
    ELSE LET n == IF size > 0 THEN size - 1 ELSE 0
         IN  [hp EXCEPT ![p] = [live |-> TRUE, size |-> n,
                                data |-> [i \in 1..n |-> Unspecified]]]

(* the heap after alloc returned p for a layout of `size` bytes *)
allocated(hp, p, size) ==
    IF p = NULL THEN hp
    ELSE [hp EXCEPT ![p] = [live |-> TRUE, size |-> size,
                            data |-> [i \in 1..size |-> Unspecified]]]

(* a release that leaves the block in use *)
dealloc_skipped(hp, p) == hp

(* dealloc(ptr, layout) of a live block; of anything else it is undefined
   behaviour, whose outcomes _3nweb_mp1_get_buffer enumerates *)
dealloc(hp, p) == IF LiveAt(hp, p) THEN [hp EXCEPT ![p] = FreeRegion] ELSE hp

(* a copy that stops one byte short *)
write_bytes_short(hp, p, bytes) ==
    IF LiveAt(hp, p)
    THEN [hp EXCEPT ![p].data =
            [i \in 1..hp[p].size |-> IF i < Len(bytes) THEN bytes[i] ELSE @[i]]]
    ELSE hp

(* writing `bytes` at address p: the part that fits goes into the region *)
write_bytes(hp, p, bytes) ==
    IF LiveAt(hp, p)
    THEN [hp EXCEPT ![p].data =
            [i \in 1..hp[p].size |-> IF i <= Len(bytes) THEN bytes[i] ELSE @[i]]]
    ELSE hp

(* does an access of n bytes at p leave the live region at p *)
out_of_region(hp, p, n) == n > 0 /\ n > CapacityAt(hp, p)

(* what a read of n bytes at p yields: the region's bytes where the read is
   inside it, Unspecified where it is of uninitialised or foreign memory *)
read_bytes(hp, p, n) ==
    [i \in 1..n |-> IF i <= CapacityAt(hp, p) THEN hp[p].data[i] ELSE Unspecified]

(* ---- _3nweb_mp1_get_buffer ---- *)

(* lines 51-52: the existing buffer is handed back *)
reuse_buffer(bi, buf_size) == bi.layout # NoLayout /\ bi.len <= buf_size

(* every outcome of _3nweb_mp1_get_buffer(buf_size) from buffer state bi:
   the early return of line 53, or dealloc (line 55, which may stop the
   instance when the pointer is not a live block) and lines 57-61 with each
   pointer alloc may return *)
_3nweb_mp1_get_buffer(bi, hp, buf_size, canFail) ==
    IF reuse_buffer(bi, buf_size)
    THEN {[bi |-> bi, heap |-> hp, ret |-> bi.ptr, trap |-> FALSE,
           allocs |-> 0, deallocs |-> 0]}
    ELSE LET had == bi.layout # NoLayout
             hp1 == IF had THEN dealloc(hp, bi.ptr) ELSE hp
             nd  == IF had THEN 1 ELSE 0
         IN  (IF had /\ ~LiveAt(hp, bi.ptr)
              THEN {[bi |-> bi, heap |-> hp, ret |-> NULL, trap |-> TRUE,
                     allocs |-> 0, deallocs |-> nd]}
              ELSE {})
             \cup
             {[bi |-> [ptr |-> p, len |-> buf_size, layout |-> buf_size],
               heap |-> allocated(hp1, p, buf_size), ret |-> p, trap |-> FALSE,
               allocs |-> 1, deallocs |-> nd] : p \in alloc(hp1, canFail)}

(* ---- _3nweb_mp1_accept_msg ---- *)

(* an accept that slices the buffer for the empty message too *)
reads_buffer_always(len) == len >= 0

(* line 129: the buffer is read only for a non-empty message *)
reads_buffer(len) == len > 0

(* a message that is the slice of the buffer itself *)
Vec_borrowed(buf_ptr) == buf_ptr

(* line 85: Vec::from(buf) copies the slice at buf_ptr to memory of its own *)
Vec_from(buf_ptr) == Owned

(* read_msg_from_buffer(len): the copies it may return, and whether the read
   may instead stop the instance (null or too short a buffer) *)
read_msg_from_buffer(bi, hp, len) ==
    {[trap |-> FALSE, msg |-> read_bytes(hp, bi.ptr, len),
      view |-> Vec_from(bi.ptr)]}
    \cup (IF bi.ptr = NULL \/ out_of_region(hp, bi.ptr, len)
          THEN {[trap |-> TRUE, msg |-> <<>>, view |-> Owned]} ELSE {})

(* the messages the processor was given, as they read when the heap is hp:
   an owned message keeps its bytes, a view reads what is at its address *)
held(lg, hp) ==
    [i \in 1..Len(lg) |->
        IF lg[i].view = Owned THEN lg[i]
        ELSE [lg[i] EXCEPT !.msg = read_bytes(hp, lg[i].view, Len(@))]]

(* a dispatch that calls the processor a second time *)
dispatch_twice(proc, msg) ==
    IF proc # None
    THEN <<[proc |-> proc, msg |-> msg], [proc |-> proc, msg |-> msg]>>
    ELSE <<>>

(* a dispatch that hands a message nobody is registered for to processor 1 *)
dispatch_default(proc, msg) ==
    <<[proc |-> IF proc # None THEN proc ELSE 1, msg |-> msg]>>

(* lines 131-133: the invocations of the processor for one message *)
dispatch(proc, msg) ==
    IF proc # None THEN <<[proc |-> proc, msg |-> msg]>> ELSE <<>>

(* ---- set_msg_processor ---- *)

(* a registration that keeps the processor registered first *)
set_msg_processor_once(current, processor) ==
    IF current = None THEN processor ELSE current

(* line 99: MSG_PROCESSOR = Some(processor), whatever it was *)
set_msg_processor(current, processor) == processor

(* ---- state ---- *)

(* what happened so far: the argument of the latest set_msg_processor call,
   how many accept calls returned while no processor was registered, and
   whether alloc ever returned a region *)
NoHist == [registered |-> None, dropped |-> 0, allocated |-> FALSE]

NoCall ==
    [op |-> "none", arg |-> 0, msg |-> <<>>, ret |-> NULL,
     pre |-> [ptr |-> NULL, len |-> 0, layout |-> NoLayout],
     trap |-> FALSE, allocs |-> 0, deallocs |-> 0, invoked |-> 0,
     proc |-> None, readBuf |-> FALSE, bufChanged |-> FALSE, notifs |-> <<>>,
     protocol |-> FALSE, supplied |-> NoPattern, writeOOB |-> FALSE]

Idle == [phase |-> "idle", addr |-> NULL, len |-> 0]

(* the instance is alive and the run has not reached its bound *)
Running == ~aborted /\ ncalls < MaxCalls

Init ==
    /\ BUFFER_INFO = [ptr |-> NULL, len |-> 0, layout |-> NoLayout]
    /\ MSG_PROCESSOR = None
    /\ heap = [a \in Addr |-> FreeRegion]
    /\ inbound = Idle
    /\ log = <<>>
    /\ last = NoCall
    /\ aborted = FALSE
    /\ ncalls = 0
    /\ hist = NoHist

(* the host calls _3nweb_mp1_get_buffer(buf_size) *)
GetBuffer(buf_size, canFail) ==
    /\ Running
    /\ ncalls' = ncalls + 1
    /\ \E o \in _3nweb_mp1_get_buffer(BUFFER_INFO, heap, buf_size, canFail) :
        /\ BUFFER_INFO' = o.bi
        /\ heap' = o.heap
        /\ aborted' = o.trap
        /\ inbound' = IF o.trap THEN Idle
                      ELSE [phase |-> "got", addr |-> o.ret, len |-> buf_size]
        /\ last' = [NoCall EXCEPT !.op = "get_buffer", !.arg = buf_size,
                        !.ret = o.ret, !.pre = BUFFER_INFO, !.trap = o.trap,
                        !.allocs = o.allocs, !.deallocs = o.deallocs,
                        !.proc = MSG_PROCESSOR,
                        !.bufChanged = (o.bi # BUFFER_INFO \/ o.heap # heap)]
        /\ log' = held(log, o.heap)
        /\ hist' = [hist EXCEPT
                        !.allocated = @ \/ (o.allocs = 1 /\ o.bi.ptr # NULL)]
    /\ UNCHANGED MSG_PROCESSOR

(* an accept that first asks _3nweb_mp1_get_buffer for a buffer of len bytes
   and then reads the message from it *)
accept_msg_resizing(hp, len, given, oob) ==
    \E o \in {x \in _3nweb_mp1_get_buffer(BUFFER_INFO, hp, len, FALSE) : ~x.trap} :
    \E r \in (IF reads_buffer(len)
              THEN read_msg_from_buffer(o.bi, o.heap, len)
              ELSE {[trap |-> FALSE, msg |-> <<>>, view |-> Owned]}) :
        LET calls == IF r.trap THEN <<>> ELSE dispatch(MSG_PROCESSOR, r.msg)
            given_to == [i \in 1..Len(calls) |->
                            [proc |-> calls[i].proc, msg |-> calls[i].msg,
                             view |-> r.view]]
        IN  /\ log' = held(log, o.heap) \o given_to
            /\ aborted' = r.trap
            /\ heap' = o.heap
            /\ BUFFER_INFO' = o.bi
            /\ inbound' = Idle
            /\ last' = [NoCall EXCEPT !.op = "accept", !.arg = len,
                            !.pre = BUFFER_INFO, !.trap = r.trap,
                            !.invoked = Len(given_to), !.proc = MSG_PROCESSOR,
                            !.readBuf = reads_buffer(len),
                            !.protocol = (given # NoPattern),
                            !.supplied = given, !.writeOOB = oob]
            /\ hist' = IF ~r.trap /\ MSG_PROCESSOR = None
                       THEN [hist EXCEPT !.dropped = @ + 1] ELSE hist
            /\ UNCHANGED MSG_PROCESSOR

(* _3nweb_mp1_accept_msg(len) run on heap hp; `given` is what the host copied
   to the buffer right before the call (NoPattern if it copied nothing) and
   `oob` whether that copy left the buffer *)
accept_msg(hp, len, given, oob) ==
    \E r \in (IF reads_buffer(len)
              THEN read_msg_from_buffer(BUFFER_INFO, hp, len)
              ELSE {[trap |-> FALSE, msg |-> <<>>, view |-> Owned]}) :
        LET calls == IF r.trap THEN <<>> ELSE dispatch(MSG_PROCESSOR, r.msg)
            given_to == [i \in 1..Len(calls) |->
                            [proc |-> calls[i].proc, msg |-> calls[i].msg,
                             view |-> r.view]]
        IN  /\ log' = held(log, hp) \o given_to
            /\ aborted' = r.trap
            /\ heap' = hp
            /\ inbound' = Idle
            /\ last' = [NoCall EXCEPT !.op = "accept", !.arg = len,
                            !.pre = BUFFER_INFO, !.trap = r.trap,
                            !.invoked = Len(given_to), !.proc = MSG_PROCESSOR,
                            !.readBuf = reads_buffer(len),
                            !.protocol = (given # NoPattern),
                            !.supplied = given, !.writeOOB = oob]
            /\ hist' = IF ~r.trap /\ MSG_PROCESSOR = None
                       THEN [hist EXCEPT !.dropped = @ + 1] ELSE hist
            /\ UNCHANGED <<BUFFER_INFO, MSG_PROCESSOR>>

(* the host copies the message's bytes to the address _3nweb_mp1_get_buffer
   returned for their length, then calls _3nweb_mp1_accept_msg with it *)
Deliver(bytes) ==
    /\ Running
    /\ ncalls' = ncalls + 1
    /\ inbound.phase = "got"
    /\ Len(bytes) = inbound.len
    /\ accept_msg(write_bytes(heap, inbound.addr, bytes), Len(bytes), bytes,
                  out_of_region(heap, inbound.addr, Len(bytes)))

(* the host calls _3nweb_mp1_accept_msg(len) without having copied a message *)
AcceptMsg(len) ==
    /\ Running
    /\ ncalls' = ncalls + 1
    /\ accept_msg(heap, len, NoPattern, FALSE)

(* a send that asks for a buffer every time *)
needs_resize_always(bi, msg) == TRUE

(* line 69: the buffer is asked for when the recorded length is below the
   message's *)
needs_resize(bi, msg) == bi.len < Len(msg)

(* guest code calls send_msg_out(msg): the resize of lines 69-71, the copy
   of line 72 (undefined behaviour when it leaves the buffer: it may stop the
   instance) and the notification of line 73 with the bytes the host finds
   at the reported address *)
SendMsgOut(msg, canFail) ==
    /\ Running
    /\ ncalls' = ncalls + 1
    /\ \E o \in (IF needs_resize(BUFFER_INFO, msg)
                 THEN _3nweb_mp1_get_buffer(BUFFER_INFO, heap, Len(msg), canFail)
                 ELSE {[bi |-> BUFFER_INFO, heap |-> heap, ret |-> BUFFER_INFO.ptr,
                        trap |-> FALSE, allocs |-> 0, deallocs |-> 0]}) :
       \E copyTrap \in BOOLEAN :
        LET oor  == out_of_region(o.heap, o.bi.ptr, Len(msg))
            trap == o.trap \/ copyTrap
            hp2  == IF trap THEN o.heap ELSE write_bytes(o.heap, o.bi.ptr, msg)
        IN  /\ copyTrap => (~o.trap /\ oor)
            /\ LET seen == IF trap THEN <<>>
                            ELSE read_bytes(hp2, o.bi.ptr, Len(msg)) IN
                /\ BUFFER_INFO' = o.bi
                /\ heap' = hp2
                /\ log' = held(log, hp2)
                /\ hist' = [hist EXCEPT
                        !.allocated = @ \/ (o.allocs = 1 /\ o.bi.ptr # NULL)]
                /\ aborted' = trap
                /\ last' = [NoCall EXCEPT !.op = "send", !.arg = Len(msg),
                                !.msg = msg, !.ret = o.bi.ptr,
                                !.pre = BUFFER_INFO, !.trap = trap,
                                !.allocs = o.allocs, !.deallocs = o.deallocs,
                                !.proc = MSG_PROCESSOR,
                                !.bufChanged = (o.bi # BUFFER_INFO \/ hp2 # heap),
                                !.notifs = IF trap THEN <<>>
                                           ELSE <<[ptr |-> o.bi.ptr,
                                                   len |-> Len(msg),
                                                   seen |-> seen]>>]
    /\ inbound' = Idle
    /\ UNCHANGED MSG_PROCESSOR

(* guest code calls set_msg_processor(processor) *)
SetMsgProcessor(processor) ==
    /\ Running
    /\ ncalls' = ncalls + 1
    /\ MSG_PROCESSOR' = set_msg_processor(MSG_PROCESSOR, processor)
    /\ hist' = [hist EXCEPT !.registered = processor]
    /\ last' = [NoCall EXCEPT !.op = "set_processor", !.arg = processor,
                    !.pre = BUFFER_INFO, !.proc = MSG_PROCESSOR]
    /\ UNCHANGED <<BUFFER_INFO, heap, inbound, log, aborted>>

(* the allocator never fails *)
Next ==
    \/ \E n \in Sizes : GetBuffer(n, FALSE)
    \/ \E b \in Msgs : Deliver(b)
    \/ \E n \in Sizes : AcceptMsg(n)
    \/ \E m \in Msgs : SendMsgOut(m, FALSE)
    \/ \E p \in Procs : SetMsgProcessor(p)

Spec == Init /\ [][Next]_vars

(* the allocator may return null *)
NextAllocFail ==
    \/ \E n \in Sizes : GetBuffer(n, TRUE)
    \/ \E b \in Msgs : Deliver(b)
    \/ \E n \in Sizes : AcceptMsg(n)
    \/ \E m \in Msgs : SendMsgOut(m, TRUE)
    \/ \E p \in Procs : SetMsgProcessor(p)

SpecAllocFail == Init /\ [][NextAllocFail]_vars

TypeOK ==
    /\ BUFFER_INFO.ptr \in Addr \cup {NULL}
    /\ BUFFER_INFO.len \in Sizes
    /\ BUFFER_INFO.layout \in Sizes \cup {NoLayout}
    /\ MSG_PROCESSOR \in Procs \cup {None}
    /\ Len(log) <= ncalls
    /\ ncalls \in 0..MaxCalls
    /\ aborted \in BOOLEAN
    /\ hist.registered \in Procs \cup {None}
    /\ hist.dropped \in 0..ncalls
    /\ hist.allocated \in BOOLEAN

(* ---- properties ---- *)

LastNotif == last.notifs[1]
LastLogged == log[Len(log)]
LiveRegions == {a \in Addr : heap[a].live}

(* C1: whenever _3nweb_mp1_get_buffer(buf_size) has been called, it returned
   the base address of a live region whose capacity is at least buf_size. *)
C1_GetBufferFitsRequest ==
    last.op = "get_buffer" =>
        /\ ~last.trap
        /\ LiveAt(heap, last.ret)
        /\ CapacityAt(heap, last.ret) >= last.arg

(* C2: send_msg_out(m) notifies the host once with (address, len(m)), the
   region at that address holds at least len(m) bytes, and the len(m) bytes
   the host sees there are m. *)
C2_SendDeliversMessage ==
    last.op = "send" =>
        /\ ~last.trap
        /\ Len(last.notifs) = 1
        /\ LastNotif.len = Len(last.msg)
        /\ LastNotif.ptr = BUFFER_INFO.ptr
        /\ CapacityAt(heap, LastNotif.ptr) >= Len(last.msg)
        /\ LastNotif.seen = last.msg

(* C3: no call leaves BUFFER_INFO.len smaller than it was before the call. *)
C3_CapacityNeverShrinks ==
    last.op # "none" => BUFFER_INFO.len >= last.pre.len

(* C4: _3nweb_mp1_get_buffer(m) on an existing buffer of capacity c >= m
   neither frees nor allocates, returns the address the buffer had, and
   leaves the capacity c. *)
C4_ReuseWhenBigEnough ==
    (last.op = "get_buffer" /\ last.pre.layout # NoLayout
        /\ last.arg <= last.pre.len) =>
        /\ last.allocs = 0
        /\ last.deallocs = 0
        /\ last.ret = last.pre.ptr
        /\ BUFFER_INFO.ptr = last.pre.ptr
        /\ BUFFER_INFO.len = last.pre.len

(* C5: _3nweb_mp1_get_buffer(n) with n above the current capacity releases
   the previous region (if any), allocates one of exactly n bytes, tracks
   capacity n and returns the new region's address. *)
C5_GrowReplacesRegion ==
    (last.op = "get_buffer" /\ last.arg > last.pre.len) =>
        /\ ~last.trap
        /\ last.pre.layout # NoLayout => last.deallocs = 1
        /\ last.allocs = 1
        /\ BUFFER_INFO.len = last.arg
        /\ last.ret = BUFFER_INFO.ptr
        /\ LiveAt(heap, last.ret)
        /\ CapacityAt(heap, last.ret) = last.arg

(* C6: a delivery get_buffer(len), host write of len bytes, accept(len) with
   a processor registered records exactly the bytes the host supplied, as the
   newest entry of the log, and the host's write stayed inside the buffer. *)
C6_InboundRoundTrip ==
    (last.op = "accept" /\ last.protocol /\ last.proc # None) =>
        /\ ~last.writeOOB
        /\ ~last.trap
        /\ last.invoked = 1
        /\ Len(log) >= 1
        /\ LastLogged.msg = last.supplied

(* C7: an accept call invokes the processor at most once; a call that has
   returned invoked it exactly once if one was registered when it was called
   (and that one), and not at all otherwise. *)
C7_AtMostOneInvocation ==
    last.op = "accept" =>
        /\ last.invoked <= 1
        /\ ~last.trap =>
              last.invoked = (IF last.proc # None THEN 1 ELSE 0)
        /\ last.invoked >= 1 =>
              /\ Len(log) >= last.invoked
              /\ LastLogged.proc = last.proc

C7_Witness ==
    /\ last.op = "accept"
    /\ last.arg > 0
    /\ last.proc # None
    /\ ~last.trap
    /\ last.invoked = 1

(* C8: _3nweb_mp1_accept_msg(0) with a processor registered invokes it once
   with the empty message, whatever the buffer state, without reading the
   buffer, without any allocation or release, and leaving BUFFER_INFO and
   the heap as they were. *)
C8_AcceptEmpty ==
    /\ [](  (last.op = "accept" /\ last.arg = 0 /\ last.proc # None) =>
              /\ ~last.trap
              /\ last.invoked = 1
              /\ Len(log) >= 1
              /\ LastLogged.msg = <<>>
              /\ LastLogged.proc = last.proc
              /\ ~last.readBuf
              /\ last.allocs = 0
              /\ last.deallocs = 0 )
    /\ [][ (last'.op = "accept" /\ last'.arg = 0 /\ last'.proc # None) =>
              (BUFFER_INFO' = BUFFER_INFO /\ heap' = heap) ]_vars

C8_Witness ==
    /\ last.op = "accept"
    /\ last.arg = 0
    /\ last.proc # None
    /\ BUFFER_INFO.layout = NoLayout
    /\ last.invoked = 1

(* C9: _3nweb_mp1_accept_msg(len) with len > 0 and no processor registered
   invokes nothing and completes normally in every buffer state. *)
C9_AcceptWithoutProcessor ==
    (last.op = "accept" /\ last.arg > 0 /\ last.proc = None) =>
        /\ last.invoked = 0
        /\ ~last.trap

(* C10: a null pointer from the allocator is never recorded as the exchange
   buffer, never returned by _3nweb_mp1_get_buffer, and never the address
   send_msg_out copies a message to and reports to the host. *)
C10_NoNullBuffer ==
    /\ ~(BUFFER_INFO.layout # NoLayout /\ BUFFER_INFO.ptr = NULL)
    /\ (last.op = "get_buffer" /\ ~last.trap) => last.ret # NULL
    /\ (last.op = "send" /\ last.arg > 0 /\ Len(last.notifs) = 1) =>
            LastNotif.ptr # NULL

(* C11: the registered processor is always the argument of the latest
   set_msg_processor call, and an accept call invokes that processor and no
   other, however many were registered before it. *)
C11_LastRegistrationWins ==
    /\ MSG_PROCESSOR = hist.registered
    /\ last.op = "set_processor" => MSG_PROCESSOR = last.arg
    /\ (last.op = "accept" /\ last.invoked >= 1) =>
            \A i \in (Len(log) - last.invoked + 1)..Len(log) :
                log[i].proc = hist.registered

(* a processor was invoked, another one was registered in its place, and an
   accept call has now invoked the new one *)
C11_Witness ==
    /\ last.op = "accept"
    /\ last.invoked = 1
    /\ Len(log) >= 2
    /\ log[1].proc # LastLogged.proc
    /\ LastLogged.proc = hist.registered

(* C12: no call (a send's copy, a host write for the next message, a
   reallocation by _3nweb_mp1_get_buffer) changes the bytes of a message the
   processor was given before it: the messages given so far read after the
   call as they read before it. *)
C12_DeliveredMessagesKept ==
    [][ /\ Len(log') >= Len(log)
        /\ \A i \in 1..Len(log) : log'[i].msg = log[i].msg ]_vars

(* a message was given to the processor from the buffer, and a later send or
   _3nweb_mp1_get_buffer left other bytes where it was read from *)
C12_Witness ==
    /\ Len(log) >= 1
    /\ Len(log[1].msg) > 0
    /\ last.op \in {"send", "get_buffer"}
    /\ last.bufChanged
    /\ log[1].msg # read_bytes(heap, last.pre.ptr, Len(log[1].msg))

(* C13: at most one region is allocated at any time and it is the one
   BUFFER_INFO tracks; a call that allocates while a buffer exists releases
   that buffer first, no call releases more than once, and the pointer a
   release is given is null or a region still allocated (never one released
   before). *)
C13_SingleAllocation ==
    /\ Cardinality(LiveRegions) <= 1
    /\ \A a \in LiveRegions :
            BUFFER_INFO.layout # NoLayout /\ BUFFER_INFO.ptr = a
    /\ (BUFFER_INFO.layout # NoLayout /\ BUFFER_INFO.ptr # NULL) =>
            LiveAt(heap, BUFFER_INFO.ptr)
    /\ last.deallocs <= 1
    /\ last.allocs <= 1
    /\ (last.allocs = 1 /\ last.pre.layout # NoLayout) => last.deallocs = 1
    /\ last.pre.layout = NoLayout => last.deallocs = 0

(* a call released the existing buffer and allocated another one *)
C13_Witness ==
    /\ last.op \in {"get_buffer", "send"}
    /\ last.pre.layout # NoLayout
    /\ last.pre.ptr # NULL
    /\ last.deallocs = 1
    /\ last.allocs = 1
    /\ Cardinality(LiveRegions) = 1

(* C14: nothing is kept of a message accepted while no processor is
   registered: such a call and a set_msg_processor call leave the processor's
   record as it is, and the record grows only by an accept call made with a
   processor registered, by one entry, for that processor, holding the
   message of that very call. *)
C14_NoQueuing ==
    /\ [][ (last'.op = "accept" /\ last'.proc = None) => log' = log ]_vars
    /\ [][ last'.op = "set_processor" => log' = log ]_vars
    /\ [][ Len(log') # Len(log) =>
              /\ last'.op = "accept"
              /\ last'.proc # None
              /\ Len(log') = Len(log) + 1
              /\ log'[Len(log')].proc = MSG_PROCESSOR
              /\ log'[Len(log')].msg =
                    (IF last'.arg > 0
                     THEN read_bytes(heap', BUFFER_INFO.ptr, last'.arg)
                     ELSE <<>>) ]_vars

(* an accept call returned while no processor was registered, a processor was
   registered later, and all it has received is the message of the accept
   call just made *)
C14_Witness ==
    /\ hist.dropped >= 1
    /\ last.op = "accept"
    /\ last.proc # None
    /\ last.invoked = 1
    /\ Len(log) = 1

(* C15: a send_msg_out(m) called when BUFFER_INFO.len >= len(m) neither
   allocates nor releases, leaves BUFFER_INFO (address, length, layout) as it
   was, and changes the heap by nothing but the copy of m to the first len(m)
   bytes of the buffer. *)
C15_SendReusesBuffer ==
    [][ (last'.op = "send" /\ BUFFER_INFO.len >= last'.arg) =>
            /\ last'.allocs = 0
            /\ last'.deallocs = 0
            /\ BUFFER_INFO' = BUFFER_INFO
            /\ \A a \in Addr :
                    /\ heap'[a].live = heap[a].live
                    /\ heap'[a].size = heap[a].size
            /\ ~last'.trap =>
                    heap' = write_bytes(heap, BUFFER_INFO.ptr, last'.msg) ]_vars

(* a message shorter than the buffer was sent and notified *)
C15_Witness ==
    /\ last.op = "send"
    /\ last.arg >= 1
    /\ last.pre.len > last.arg
    /\ last.pre.layout # NoLayout
    /\ ~last.trap
    /\ Len(last.notifs) = 1
    /\ BUFFER_INFO = last.pre

(* C16: every send_msg_out(m) call ends with exactly one notification, made
   after the copy: it reports the address and length the copy used, the
   buffer's address after the (optional) resize, the host finds there the
   bytes copied, and on return the buffer is still at that address and still
   holds what the host was shown. *)
C16_ResizeCopyNotify ==
    last.op = "send" =>
        /\ Len(last.notifs) = 1
        /\ LastNotif.ptr = last.ret
        /\ LastNotif.ptr = BUFFER_INFO.ptr
        /\ LastNotif.len = last.arg
        /\ \A i \in 1..last.arg :
                i <= CapacityAt(heap, BUFFER_INFO.ptr) =>
                    LastNotif.seen[i] = last.msg[i]
        /\ LastNotif.seen = read_bytes(heap, BUFFER_INFO.ptr, last.arg)

(* C17: send_msg_out(m) with len(m) >= 1 on an instance that has no buffer
   yet allocates once, a region of exactly len(m) bytes, releases nothing,
   notifies the host once with that region's address and len(m), and the
   host reads m there. *)
C17_FirstSend ==
    (last.op = "send" /\ last.pre.layout = NoLayout /\ last.arg >= 1) =>
        /\ ~last.trap
        /\ last.allocs = 1
        /\ last.deallocs = 0
        /\ BUFFER_INFO.layout # NoLayout
        /\ BUFFER_INFO.len = last.arg
        /\ LiveAt(heap, BUFFER_INFO.ptr)
        /\ CapacityAt(heap, BUFFER_INFO.ptr) = last.arg
        /\ LiveRegions = {BUFFER_INFO.ptr}
        /\ Len(last.notifs) = 1
        /\ LastNotif.ptr = BUFFER_INFO.ptr
        /\ LastNotif.len = last.arg
        /\ LastNotif.seen = last.msg

(* the first buffer of the instance was made by sending a message of more
   than one byte, which the host has read *)
C17_Witness ==
    /\ last.op = "send"
    /\ last.pre = [ptr |-> NULL, len |-> 0, layout |-> NoLayout]
    /\ last.arg >= 2
    /\ last.allocs = 1
    /\ Len(last.notifs) = 1
    /\ LastNotif.seen = last.msg

(* C18: as long as alloc has returned no region, BUFFER_INFO is {ptr: null,
   len: 0, layout: None} and nothing is allocated; from then on
   BUFFER_INFO.layout is Some, BUFFER_INFO.ptr is the address of the only
   allocated region, and BUFFER_INFO.len and the layout are that region's
   size. *)
C18_Bookkeeping ==
    IF ~hist.allocated
    THEN /\ BUFFER_INFO = [ptr |-> NULL, len |-> 0, layout |-> NoLayout]
         /\ LiveRegions = {}
    ELSE /\ BUFFER_INFO.layout # NoLayout
         /\ LiveRegions = {BUFFER_INFO.ptr}
         /\ heap[BUFFER_INFO.ptr].size = BUFFER_INFO.len
         /\ BUFFER_INFO.layout = BUFFER_INFO.len

(* the buffer was released and allocated again with another size *)
C18_Witness ==
    /\ hist.allocated
    /\ last.op = "get_buffer"
    /\ last.pre.layout # NoLayout
    /\ last.deallocs = 1
    /\ last.allocs = 1
    /\ BUFFER_INFO.len # last.pre.len
    /\ BUFFER_INFO.len >= 1

(* C19: an accept or set_msg_processor call leaves BUFFER_INFO and every
   region's allocation and size as they were; a _3nweb_mp1_get_buffer or
   send_msg_out call leaves MSG_PROCESSOR as it was and invokes no
   processor. *)
C19_Frame ==
    [][ /\ last'.op \in {"accept", "set_processor"} =>
              /\ BUFFER_INFO' = BUFFER_INFO
              /\ last'.allocs = 0
              /\ last'.deallocs = 0
              /\ \A a \in Addr :
                      /\ heap'[a].live = heap[a].live
                      /\ heap'[a].size = heap[a].size
        /\ last'.op \in {"get_buffer", "send"} =>
              /\ MSG_PROCESSOR' = MSG_PROCESSOR
              /\ last'.invoked = 0
              /\ Len(log') = Len(log) ]_vars

(* with a processor registered and a message from the buffer already given
   to it, a send has changed the buffer and invoked nothing *)
C19_Witness ==
    /\ last.op = "send"
    /\ last.bufChanged
    /\ last.proc # None
    /\ MSG_PROCESSOR = last.proc
    /\ Len(log) >= 1
    /\ Len(LastLogged.msg) >= 1
    /\ last.invoked = 0
====
